---- MODULE Spec2Model ----
(***************************************************************************)
(* smolweb-demo: two programs (tokio-demo on a desktop loopback socket,    *)
(* embassy-demo on an STM32 with Ethernet) that serve three static pages   *)
(* and one LED-toggle endpoint through a picoserve router.                 *)
(*                                                                         *)
(* The model follows one run of one of the two programs: `program` is      *)
(* chosen in Init and never changes.  A "task" is a connection handler:    *)
(* in tokio-demo one task per accepted connection (spawn_local), in        *)
(* embassy-demo one task per spawned web_task slot, which serves one       *)
(* connection after the other.                                             *)
(***************************************************************************)
EXTENDS Integers, Sequences, FiniteSets, TLC

VARIABLES
    program,    \* "tokio" or "embassy"
    mainpc,     \* position of main()
    configUp,   \* embassy: the network stack has its DHCP configuration
    led1,       \* embassy: PB0, driven by blinky_task
    led2,       \* the actuator: tokio Control.led2, embassy PE1 output level
    holders,    \* tasks holding the RefCell mutable borrow / the Mutex guard
    tasks,      \* task id -> handler record
    accepted,   \* connections accepted so far
    sent,       \* requests sent by clients so far
    toggleReqs, \* toggle requests that reached the toggle handler
    flips,      \* writes applied to led2 by the toggle handler
    log         \* completed toggles, in order: [s0, body, after]

vars == <<program, mainpc, configUp, led1, led2, holders, tasks, accepted,
          sent, toggleReqs, flips, log>>

-----------------------------------------------------------------------------
(* Bounds of the model *)

MaxConns == 2
MaxReqs == 2
MaxInbox == 2

-----------------------------------------------------------------------------
(* Program constants *)

WEB_TASK_POOL_SIZE == 4

\* `for id in 0..1`: the number of web_task instances main() spawns
WebTasksSpawned == 1

\* (variant) the path segment declared `u16`
U8MaxAsU16 == 256 * 256 - 1

\* (variant) the path segment declared `i8`
U8MaxAsI8 == 128 - 1

\* the toggle route's path segment is a `u8`
U8Max == 255

\* (variant) start_read_request: None
StartReadRequestDisabled == <<>>

\* picoserve::Timeouts: <<d>> is Some(d seconds), <<>> is None
StartReadRequestTimeout == <<5>>
ReadRequestTimeout == <<1>>

\* (variant) write: None
WriteTimeoutDisabled == <<>>

WriteTimeout == <<1>>

\* (variant) Config::new(..) without .keep_connection_alive()
KeepAliveOff == FALSE

\* .keep_connection_alive()
KeepAlive == TRUE

\* tokio: Control { led2: true }
InitialLed2 == TRUE

\* (variant) Output::new(p.PE1, Level::Low, ..)
InitialLevelPE1Low == FALSE

\* embassy: Output::new(p.PE1, Level::High, ..)
InitialLevelPE1 == TRUE

\* Output::new(p.PB0, Level::High, ..)
InitialLed1 == TRUE

Programs == {"tokio", "embassy"}

\* the value the actuator is created with in the program that runs
InitialActuator == IF program = "tokio" THEN InitialLed2 ELSE InitialLevelPE1

-----------------------------------------------------------------------------
(* Requests *)

\* A request path: a literal prefix and the path segments after it, each a
\* sequence of characters.
Path(prefix, rest) == [prefix |-> prefix, rest |-> rest]

RootPath == Path("/", <<>>)
CssPath == Path("/index.css", <<>>)
JsPath == Path("/index.js", <<>>)
TogglePath(seg) == Path("/toggle_led", <<seg>>)
NonexistentPath == Path("/nonexistent", <<>>)

Seg1 == <<"1">>
Seg255 == <<"2", "5", "5">>
Seg256 == <<"2", "5", "6">>
SegAbc == <<"a", "b", "c">>

\* The paths clients send in the model.
RequestPaths ==
    {RootPath, CssPath, JsPath, NonexistentPath,
     TogglePath(Seg1), TogglePath(Seg255), TogglePath(Seg256), TogglePath(SegAbc)}

Digits == {"0", "1", "2", "3", "4", "5", "6", "7", "8", "9"}

DigitVal(ch) ==
    CASE ch = "0" -> 0 [] ch = "1" -> 1 [] ch = "2" -> 2 [] ch = "3" -> 3
      [] ch = "4" -> 4 [] ch = "5" -> 5 [] ch = "6" -> 6 [] ch = "7" -> 7
      [] ch = "8" -> 8 [] ch = "9" -> 9

ParseOk(n) == [ok |-> TRUE, val |-> n]
ParseErr == [ok |-> FALSE, val |-> 0]

\* <u8 as FromStr>::from_str: digit by digit with a checked multiply-add
RECURSIVE ParseDigits(_, _)
ParseDigits(s, acc) ==
    IF s = <<>> THEN ParseOk(acc)
    ELSE IF Head(s) \notin Digits THEN ParseErr
    ELSE LET v == acc * 10 + DigitVal(Head(s))
         IN IF v > U8Max THEN ParseErr ELSE ParseDigits(Tail(s), v)

ParseU8(s) ==
    IF s = <<>> THEN ParseErr
    ELSE LET d == IF Head(s) = "+" THEN Tail(s) ELSE s
         IN IF d = <<>> THEN ParseErr ELSE ParseDigits(d, 0)

-----------------------------------------------------------------------------
(* Responses *)

Response(status, ctype, body) == [status |-> status, ctype |-> ctype, body |-> body]

NoResponse == Response(0, "", "")
NoRequest == Path("", <<>>)

\* (variant) the page rendered from the actuator state
IndexHtmlFromState ==
    Response(200, "text/html", IF led2 THEN "index.html" ELSE "index.html led off")

\* picoserve::response::File::{html, css, javascript}(include_str!(..))
IndexHtml == Response(200, "text/html", "index.html")
IndexCss == Response(200, "text/css", "index.css")
IndexJs == Response(200, "application/javascript", "index.js")

NotFound == Response(404, "text/plain", "Not Found")

\* (variant) the two texts swapped
OnOffSwapped(level) == IF level THEN "OFF" ELSE "ON"

\* if *led2 { "ON" } else { "OFF" }
OnOff(level) == IF level THEN "ON" ELSE "OFF"

ToggleResponse(level) == Response(200, "text/plain", OnOff(level))

\* (variant) the handler switches the LED on instead of toggling it
FlipSetsHigh(level) == TRUE

\* *led2 = !*led2 / control.toggle()
Flip(level) == ~level

\* (variant) a route table whose last entry catches every other path
RouteCatchAll(path) ==
    IF path.prefix = "/index.css" /\ path.rest = <<>> THEN "css"
    ELSE IF path.prefix = "/index.js" /\ path.rest = <<>> THEN "js"
    ELSE IF /\ path.prefix = "/toggle_led"
            /\ Len(path.rest) = 1
            /\ ParseU8(path.rest[1]).ok THEN "toggle"
    ELSE "index"

\* The route table: which handler a path reaches.
Route(path) ==
    IF path.prefix = "/" /\ path.rest = <<>> THEN "index"
    ELSE IF path.prefix = "/index.css" /\ path.rest = <<>> THEN "css"
    ELSE IF path.prefix = "/index.js" /\ path.rest = <<>> THEN "js"
    ELSE IF /\ path.prefix = "/toggle_led"
            /\ Len(path.rest) = 1
            /\ ParseU8(path.rest[1]).ok THEN "toggle"
    ELSE "none"

StaticResponse(handler) ==
    CASE handler = "index" -> IndexHtml
      [] handler = "css" -> IndexCss
      [] handler = "js" -> IndexJs
      [] OTHER -> NotFound

-----------------------------------------------------------------------------
(* Tasks *)

TaskIds ==
    IF program = "tokio" THEN 0 .. (MaxConns - 1) ELSE 0 .. (WEB_TASK_POOL_SIZE - 1)

\* A handler task with no connection behind it yet, in state st.
FreshTask(st) ==
    [st |-> st, inbox |-> <<>>, req |-> NoRequest,
     resp |-> NoResponse, handler |-> "none", arrived |-> 0, dispatched |-> 0,
     written |-> 0, s0 |-> FALSE, mine |-> FALSE, closedBy |-> ""]

\* States in which the task owns an open connection.
OpenStates ==
    {"AwaitRequestStart", "ReadingRequest", "Dispatching", "WaitLock",
     "Acquired", "Flipped", "Responding", "WritingResponse"}

\* States between two await points of the toggle handler: the task is being
\* polled and has not yet returned to the executor.
MidPollStates == {"Acquired", "Flipped", "Responding"}

MidPoll(c) == tasks[c].st \in MidPollStates

\* embassy main() runs from its start to wait_config_up().await and from
\* there to its end without an await: in between it is in the middle of a
\* poll.  tokio main() awaits at bind and at every accept.
MainMidPoll ==
    /\ program = "embassy"
    /\ mainpc \in {"init", "blinky_spawned", "config_up", "app_built"}

\* (variant) tasks on a preemptive multi-thread executor
CanRunPreemptive(c) == TRUE

\* Both executors are cooperative and single-threaded
\* (#[tokio::main(flavor = "current_thread")] with a LocalSet,
\* #[embassy_executor::main]): a task runs only when neither main nor
\* another task is in the middle of a poll.
CanRun(c) == ~MainMidPoll /\ \A d \in TaskIds \ {c} : ~MidPoll(d)

\* main runs only when no task is in the middle of a poll
MainCanRun == \A d \in TaskIds : ~MidPoll(d)

\* a background task (blinky_task, net_task) runs only when neither main
\* nor a handler task is in the middle of a poll
BackgroundCanRun == ~MainMidPoll /\ MainCanRun

Spawned == {c \in TaskIds : tasks[c].st # "Unspawned"}

Serving == {c \in TaskIds : tasks[c].st \in OpenStates}

\* The connection is closed and its buffers are dropped.
Close(c, why) ==
    tasks' = [tasks EXCEPT ![c] = [FreshTask("Closed") EXCEPT !.closedBy = why]]

-----------------------------------------------------------------------------
(* Initial state: the LEDs / the Control value exist, nothing is spawned *)

Init ==
    /\ program \in Programs
    /\ mainpc = "init"
    /\ configUp = FALSE
    /\ led1 = InitialLed1
    /\ led2 = InitialActuator
    /\ holders = {}
    /\ tasks = [c \in TaskIds |-> FreshTask("Unspawned")]
    /\ accepted = 0
    /\ sent = 0
    /\ toggleReqs = 0
    /\ flips = 0
    /\ log = <<>>

-----------------------------------------------------------------------------
(* tokio-demo main *)

\* TcpListener::bind(..).await? succeeded
Bind ==
    /\ program = "tokio"
    /\ mainpc = "init"
    /\ mainpc' = "accepting"
    /\ UNCHANGED <<program, configUp, led1, led2, holders, tasks, accepted,
                   sent, toggleReqs, flips, log>>

\* TcpListener::bind(..).await? failed: main returns the error
BindFail ==
    /\ program = "tokio"
    /\ mainpc = "init"
    /\ mainpc' = "failed"
    /\ UNCHANGED <<program, configUp, led1, led2, holders, tasks, accepted,
                   sent, toggleReqs, flips, log>>

\* socket.accept().await? succeeded; spawn_local(serve_with_state(..))
Accept(c) ==
    /\ program = "tokio"
    /\ mainpc = "accepting"
    /\ MainCanRun
    /\ accepted < MaxConns
    /\ c = accepted
    /\ tasks[c].st = "Unspawned"
    /\ tasks' = [tasks EXCEPT ![c] = FreshTask("AwaitRequestStart")]
    /\ accepted' = accepted + 1
    /\ UNCHANGED <<program, mainpc, configUp, led1, led2, holders, sent,
                   toggleReqs, flips, log>>

\* socket.accept().await? failed: `?` leaves the loop, run_until completes,
\* main returns the error and the LocalSet with every spawned task is dropped.
AcceptError ==
    /\ program = "tokio"
    /\ mainpc = "accepting"
    /\ MainCanRun
    /\ mainpc' = "aborted"
    /\ tasks' = [c \in TaskIds |->
                    IF tasks[c].st \in OpenStates
                    THEN FreshTask("Cancelled")
                    ELSE tasks[c]]
    /\ UNCHANGED <<program, configUp, led1, led2, holders, accepted, sent,
                   toggleReqs, flips, log>>

-----------------------------------------------------------------------------
(* embassy-demo main and its background tasks *)

\* spawner.spawn(blinky_task(led1))
SpawnBlinky ==
    /\ program = "embassy"
    /\ mainpc = "init"
    /\ mainpc' = "blinky_spawned"
    /\ UNCHANGED <<program, configUp, led1, led2, holders, tasks, accepted,
                   sent, toggleReqs, flips, log>>

\* spawner.spawn(net_task(&stack))
SpawnNetTask ==
    /\ program = "embassy"
    /\ mainpc = "blinky_spawned"
    /\ mainpc' = "net_spawned"
    /\ UNCHANGED <<program, configUp, led1, led2, holders, tasks, accepted,
                   sent, toggleReqs, flips, log>>

\* net_task: stack.run() obtains the DHCP configuration
NetConfigUp ==
    /\ program = "embassy"
    /\ mainpc \notin {"init", "blinky_spawned"}
    /\ BackgroundCanRun
    /\ ~configUp
    /\ configUp' = TRUE
    /\ UNCHANGED <<program, mainpc, led1, led2, holders, tasks, accepted,
                   sent, toggleReqs, flips, log>>

\* (variant) main without stack.wait_config_up().await
WaitConfigUpSkipped ==
    /\ program = "embassy"
    /\ mainpc = "net_spawned"
    /\ MainCanRun
    /\ mainpc' = "config_up"
    /\ UNCHANGED <<program, configUp, led1, led2, holders, tasks, accepted,
                   sent, toggleReqs, flips, log>>

\* stack.wait_config_up().await returns
WaitConfigUp ==
    /\ program = "embassy"
    /\ mainpc = "net_spawned"
    /\ MainCanRun
    /\ configUp
    /\ mainpc' = "config_up"
    /\ UNCHANGED <<program, configUp, led1, led2, holders, tasks, accepted,
                   sent, toggleReqs, flips, log>>

\* make_static!(make_app()), make_static!(Config ..), SharedControl(..)
BuildApp ==
    /\ program = "embassy"
    /\ mainpc = "config_up"
    /\ mainpc' = "app_built"
    /\ UNCHANGED <<program, configUp, led1, led2, holders, tasks, accepted,
                   sent, toggleReqs, flips, log>>

\* one iteration of `for id in 0..1 { spawner.must_spawn(web_task(id, ..)) }`
SpawnWebTask(id) ==
    /\ program = "embassy"
    /\ mainpc = "app_built"
    /\ id = Cardinality(Spawned)
    /\ id < WebTasksSpawned
    /\ tasks' = [tasks EXCEPT ![id] = FreshTask("Listening")]
    /\ UNCHANGED <<program, mainpc, configUp, led1, led2, holders, accepted,
                   sent, toggleReqs, flips, log>>

\* the spawn loop is over and main returns; the spawned tasks keep running
MainReturn ==
    /\ program = "embassy"
    /\ mainpc = "app_built"
    /\ Cardinality(Spawned) = WebTasksSpawned
    /\ mainpc' = "done"
    /\ UNCHANGED <<program, configUp, led1, led2, holders, tasks, accepted,
                   sent, toggleReqs, flips, log>>

\* (variant) blinky_task spawned with the pin of the actuator
BlinkyOnLed2 ==
    /\ program = "embassy"
    /\ mainpc # "init"
    /\ BackgroundCanRun
    /\ led2' = ~led2
    /\ UNCHANGED <<program, mainpc, configUp, led1, holders, tasks, accepted,
                   sent, toggleReqs, flips, log>>

\* blinky_task: led.toggle(); Timer::after_secs(1).await
Blinky ==
    /\ program = "embassy"
    /\ mainpc # "init"
    /\ BackgroundCanRun
    /\ led1' = ~led1
    /\ UNCHANGED <<program, mainpc, configUp, led2, holders, tasks, accepted,
                   sent, toggleReqs, flips, log>>

\* web_task: listen_and_serve_with_state accepts a connection on its socket
SlotAccept(c) ==
    /\ program = "embassy"
    /\ tasks[c].st = "Listening"
    /\ CanRun(c)
    /\ accepted < MaxConns
    /\ tasks' = [tasks EXCEPT ![c] = FreshTask("AwaitRequestStart")]
    /\ accepted' = accepted + 1
    /\ UNCHANGED <<program, mainpc, configUp, led1, led2, holders, sent,
                   toggleReqs, flips, log>>

\* web_task: the connection is over, listen_and_serve_with_state loops and
\* listens again
SlotRelisten(c) ==
    /\ program = "embassy"
    /\ tasks[c].st = "Closed"
    /\ CanRun(c)
    /\ tasks' = [tasks EXCEPT ![c] = FreshTask("Listening")]
    /\ UNCHANGED <<program, mainpc, configUp, led1, led2, holders, accepted,
                   sent, toggleReqs, flips, log>>

-----------------------------------------------------------------------------
(* Clients *)

\* A client sends one more request on its connection.
ClientSend(c, p) ==
    /\ tasks[c].st \in OpenStates
    /\ Len(tasks[c].inbox) < MaxInbox
    /\ sent < MaxReqs
    /\ tasks' = [tasks EXCEPT
                    ![c].inbox = Append(@, [path |-> p, n |-> tasks[c].arrived + 1]),
                    ![c].arrived = @ + 1]
    /\ sent' = sent + 1
    /\ UNCHANGED <<program, mainpc, configUp, led1, led2, holders, accepted,
                   toggleReqs, flips, log>>

-----------------------------------------------------------------------------
(* The connection handler: picoserve::serve_with_state /                   *)
(* listen_and_serve_with_state run with the program's Config               *)

\* AwaitRequestStart: bytes of a request have arrived
StartRead(c) ==
    /\ tasks[c].st = "AwaitRequestStart"
    /\ CanRun(c)
    /\ tasks[c].inbox # <<>>
    /\ tasks' = [tasks EXCEPT ![c].st = "ReadingRequest"]
    /\ UNCHANGED <<program, mainpc, configUp, led1, led2, holders, accepted,
                   sent, toggleReqs, flips, log>>

\* AwaitRequestStart: nothing arrived within start_read_request
StartReadTimeout(c) ==
    /\ tasks[c].st = "AwaitRequestStart"
    /\ CanRun(c)
    /\ tasks[c].inbox = <<>>
    /\ StartReadRequestTimeout # <<>>
    /\ Close(c, "start_read_request")
    /\ UNCHANGED <<program, mainpc, configUp, led1, led2, holders, accepted,
                   sent, toggleReqs, flips, log>>

\* AwaitRequestStart: the client has closed the connection and nothing is
\* left to read
PeerClosed(c) ==
    /\ tasks[c].st = "AwaitRequestStart"
    /\ CanRun(c)
    /\ tasks[c].inbox = <<>>
    /\ Close(c, "eof")
    /\ UNCHANGED <<program, mainpc, configUp, led1, led2, holders, accepted,
                   sent, toggleReqs, flips, log>>

\* ReadingRequest: the oldest request is framed
ReadRequest(c) ==
    /\ tasks[c].st = "ReadingRequest"
    /\ CanRun(c)
    /\ tasks' = [tasks EXCEPT ![c].st = "Dispatching",
                              ![c].req = Head(tasks[c].inbox).path,
                              ![c].dispatched = Head(tasks[c].inbox).n,
                              ![c].inbox = Tail(@)]
    /\ UNCHANGED <<program, mainpc, configUp, led1, led2, holders, accepted,
                   sent, toggleReqs, flips, log>>

\* ReadingRequest: the request was not complete within read_request
ReadTimeout(c) ==
    /\ tasks[c].st = "ReadingRequest"
    /\ CanRun(c)
    /\ ReadRequestTimeout # <<>>
    /\ Close(c, "read_request")
    /\ UNCHANGED <<program, mainpc, configUp, led1, led2, holders, accepted,
                   sent, toggleReqs, flips, log>>

\* A read or write on the socket fails
TransportError(c) ==
    /\ tasks[c].st \in {"AwaitRequestStart", "ReadingRequest", "WritingResponse"}
    /\ CanRun(c)
    /\ Close(c, "error")
    /\ UNCHANGED <<program, mainpc, configUp, led1, led2, holders, accepted,
                   sent, toggleReqs, flips, log>>

\* Dispatching: the router matches the path.  A static route or no route
\* answers at once.  The toggle route calls the handler, which runs up to
\* state.borrow_mut() (tokio: panics when already borrowed) or
\* control.lock().await (embassy: waits while locked).
Dispatch(c) ==
    /\ tasks[c].st \in {"Dispatching", "WaitLock"}
    /\ CanRun(c)
    /\ LET h == Route(tasks[c].req) IN
        IF h # "toggle"
        THEN /\ tasks' = [tasks EXCEPT ![c].st = "WritingResponse",
                                       ![c].handler = h,
                                       ![c].resp = StaticResponse(h)]
             /\ UNCHANGED <<holders, toggleReqs>>
        ELSE /\ toggleReqs' = IF tasks[c].st = "Dispatching"
                              THEN toggleReqs + 1 ELSE toggleReqs
             /\ IF holders = {}
                THEN /\ holders' = {c}
                     /\ tasks' = [tasks EXCEPT ![c].st = "Acquired",
                                               ![c].handler = h,
                                               ![c].s0 = led2]
                ELSE /\ holders' = holders
                     /\ tasks' = [tasks EXCEPT
                                    ![c].st = IF program = "tokio"
                                              THEN "Panicked" ELSE "WaitLock",
                                    ![c].handler = h]
    /\ UNCHANGED <<program, mainpc, configUp, led1, led2, accepted, sent,
                   flips, log>>

\* *led2 = !*led2 / control.toggle()
Toggle(c) ==
    /\ tasks[c].st = "Acquired"
    /\ CanRun(c)
    /\ led2' = Flip(led2)
    /\ flips' = flips + 1
    /\ tasks' = [tasks EXCEPT ![c].st = "Flipped", ![c].mine = Flip(led2)]
    /\ UNCHANGED <<program, mainpc, configUp, led1, holders, accepted, sent,
                   toggleReqs, log>>

\* if *led2 { "ON" } else { "OFF" } /
\* DebugValue(if control.is_set_high() { "ON" } else { "OFF" })
ReadBack(c) ==
    /\ tasks[c].st = "Flipped"
    /\ CanRun(c)
    /\ tasks' = [tasks EXCEPT ![c].st = "Responding",
                              ![c].resp = ToggleResponse(led2)]
    /\ UNCHANGED <<program, mainpc, configUp, led1, led2, holders, accepted,
                   sent, toggleReqs, flips, log>>

\* (variant) the guard outlives the handler's block
ReleaseKeepsGuard(c) ==
    /\ tasks[c].st = "Responding"
    /\ CanRun(c)
    /\ holders' = holders
    /\ tasks' = [tasks EXCEPT ![c].st = "WritingResponse"]
    /\ log' = Append(log, [s0 |-> tasks[c].s0, body |-> tasks[c].resp.body,
                           after |-> led2])
    /\ UNCHANGED <<program, mainpc, configUp, led1, led2, accepted, sent,
                   toggleReqs, flips>>

\* end of the handler's block: the RefMut / MutexGuard is dropped and the
\* handler returns its response
Release(c) ==
    /\ tasks[c].st = "Responding"
    /\ CanRun(c)
    /\ holders' = holders \ {c}
    /\ tasks' = [tasks EXCEPT ![c].st = "WritingResponse"]
    /\ log' = Append(log, [s0 |-> tasks[c].s0, body |-> tasks[c].resp.body,
                           after |-> led2])
    /\ UNCHANGED <<program, mainpc, configUp, led1, led2, accepted, sent,
                   toggleReqs, flips>>

\* WritingResponse: the response is written in full
WriteResponse(c) ==
    /\ tasks[c].st = "WritingResponse"
    /\ CanRun(c)
    /\ tasks' = [tasks EXCEPT
                    ![c] = IF KeepAlive
                           THEN [FreshTask("AwaitRequestStart") EXCEPT
                                    !.inbox = tasks[c].inbox,
                                    !.arrived = tasks[c].arrived,
                                    !.dispatched = tasks[c].dispatched,
                                    !.written = tasks[c].dispatched]
                           ELSE [FreshTask("Closed") EXCEPT !.closedBy = "close"]]
    /\ UNCHANGED <<program, mainpc, configUp, led1, led2, holders, accepted,
                   sent, toggleReqs, flips, log>>

\* WritingResponse: the response was not written within write
WriteTimedOut(c) ==
    /\ tasks[c].st = "WritingResponse"
    /\ CanRun(c)
    /\ WriteTimeout # <<>>
    /\ Close(c, "write")
    /\ UNCHANGED <<program, mainpc, configUp, led1, led2, holders, accepted,
                   sent, toggleReqs, flips, log>>

-----------------------------------------------------------------------------

Next ==
    \/ Bind
    \/ BindFail
    \/ AcceptError
    \/ SpawnBlinky
    \/ SpawnNetTask
    \/ NetConfigUp
    \/ WaitConfigUp
    \/ BuildApp
    \/ MainReturn
    \/ Blinky
    \/ \E c \in TaskIds : Accept(c)
    \/ \E c \in TaskIds : SpawnWebTask(c)
    \/ \E c \in TaskIds : SlotAccept(c)
    \/ \E c \in TaskIds : SlotRelisten(c)
    \/ \E c \in TaskIds : StartRead(c)
    \/ \E c \in TaskIds : StartReadTimeout(c)
    \/ \E c \in TaskIds : PeerClosed(c)
    \/ \E c \in TaskIds : ReadRequest(c)
    \/ \E c \in TaskIds : ReadTimeout(c)
    \/ \E c \in TaskIds : TransportError(c)
    \/ \E c \in TaskIds : Dispatch(c)
    \/ \E c \in TaskIds : Toggle(c)
    \/ \E c \in TaskIds : ReadBack(c)
    \/ \E c \in TaskIds : Release(c)
    \/ \E c \in TaskIds : WriteResponse(c)
    \/ \E c \in TaskIds : WriteTimedOut(c)
    \/ \E c \in TaskIds : \E p \in RequestPaths : ClientSend(c, p)

Spec == Init /\ [][Next]_vars

\* Every task id of either program.
AllTaskIds == (0 .. (MaxConns - 1)) \cup (0 .. (WEB_TASK_POOL_SIZE - 1))

\* The steps of a handler task that need nothing but the executor: a woken
\* task is polled.
HandlerStep(c) ==
    /\ c \in TaskIds
    /\ StartRead(c) \/ Dispatch(c) \/ Toggle(c) \/ ReadBack(c) \/ Release(c)

\* The timers of a handler task: a configured timeout expires.
TimerStep(c) ==
    /\ c \in TaskIds
    /\ StartReadTimeout(c) \/ ReadTimeout(c) \/ WriteTimedOut(c)

\* web_task goes back to listening once its connection is over.
RelistenStep(c) == c \in TaskIds /\ SlotRelisten(c)

\* The executors poll every woken task and the timers fire; clients and the
\* network are under no obligation.
SpecFair ==
    /\ Init
    /\ [][Next]_vars
    /\ \A c \in AllTaskIds :
          /\ WF_vars(HandlerStep(c))
          /\ WF_vars(TimerStep(c))
          /\ WF_vars(RelistenStep(c))

-----------------------------------------------------------------------------
(* Vocabulary of the properties *)

\* the text a toggle response carries for an actuator level
TextOf(level) == IF level THEN "ON" ELSE "OFF"

Odd(n) == n % 2 = 1

\* initial state XOR (k mod 2)
AfterFlips(initial, k) == IF Odd(k) THEN ~initial ELSE initial

\* a task is executing the body of the toggle handler
InHandler(c) == tasks[c].st \in {"Acquired", "Flipped", "Responding"}

\* a task is suspended on network I/O or between connections
Suspended(c) ==
    tasks[c].st \in {"Listening", "AwaitRequestStart", "ReadingRequest",
                     "WritingResponse"}

\* the step is the dispatch of the request task c has read
Dispatched(c) ==
    /\ tasks[c].st = "Dispatching"
    /\ tasks'[c].st \in OpenStates \ {"Dispatching"}

\* the router answers the request of task c itself: the task goes straight
\* to writing a response, no handler body is entered
AnsweredByRouter(c) ==
    /\ tasks[c].st = "Dispatching"
    /\ tasks'[c].st = "WritingResponse"

ActuatorUntouched ==
    /\ led2' = led2
    /\ holders' = holders
    /\ flips' = flips
    /\ toggleReqs' = toggleReqs
    /\ log' = log

-----------------------------------------------------------------------------
\* C1: no lost updates.  Whenever no handler is in the middle of a toggle,
\* the number of flips applied to the actuator equals the number K of toggle
\* requests that were dispatched, the actuator is its initial value XOR
\* (K mod 2), and the ON/OFF text of every toggle response is the value
\* produced by that request's own flip.
C1_NoLostUpdates ==
    /\ (\A c \in TaskIds : ~InHandler(c)) =>
          /\ flips = toggleReqs
          /\ led2 = AfterFlips(InitialActuator, toggleReqs)
    /\ \A c \in TaskIds :
          (tasks[c].handler = "toggle" /\ tasks[c].st \in {"Responding", "WritingResponse"})
             => tasks[c].resp.body = TextOf(tasks[c].mine)

\* two connections served at the same time have each completed a toggle
C1_Witness ==
    /\ toggleReqs = 2
    /\ flips = 2
    /\ \E c, d \in TaskIds :
          /\ c # d
          /\ tasks[c].st = "WritingResponse" /\ tasks[c].handler = "toggle"
          /\ tasks[d].st = "WritingResponse" /\ tasks[d].handler = "toggle"
          /\ tasks[c].resp.body # tasks[d].resp.body

-----------------------------------------------------------------------------
\* C2: toggle correctness.  Every toggle that found the actuator at S0
\* answers the text of the opposite of S0 ("ON" exactly when the resulting
\* level is high) and leaves the opposite level; the toggle that follows it
\* with no other toggle in between answers the text of S0 and leaves S0.
C2_ToggleCorrectness ==
    \A i \in 1 .. Len(log) :
        /\ log[i].after = ~log[i].s0
        /\ log[i].body = TextOf(~log[i].s0)
        /\ (log[i].body = "ON") <=> log[i].after
        /\ i < Len(log) =>
              /\ log[i + 1].s0 = log[i].after
              /\ log[i + 1].body = TextOf(log[i].s0)
              /\ log[i + 1].after = log[i].s0

\* two toggles in a row, the second one back at the initial level
C2_Witness ==
    /\ Len(log) = 2
    /\ log[1].s0 = InitialActuator
    /\ log[2].after = InitialActuator
    /\ led2 = InitialActuator

-----------------------------------------------------------------------------
\* the invalid /toggle_led requests clients send
InvalidTogglePaths == {TogglePath(SegAbc), TogglePath(Seg256)}

\* C3: path-segment validation.  When a request /toggle_led/{seg} whose
\* segment is not an unsigned 8-bit integer ("abc", "256") is dispatched, it
\* is answered with a client-error status by the router, the toggle handler is not invoked and
\* the actuator is unchanged.
C3_PathSegmentValidation ==
    [][\A c \in TaskIds :
          (Dispatched(c) /\ tasks[c].req \in InvalidTogglePaths) =>
             /\ AnsweredByRouter(c)
             /\ tasks'[c].resp.status \in 400 .. 499
             /\ tasks'[c].handler = "none"
             /\ ActuatorUntouched]_vars

\* a rejected /toggle_led/256 is being answered
C3_Witness ==
    \E c \in TaskIds :
        /\ tasks[c].st = "WritingResponse"
        /\ tasks[c].req = TogglePath(Seg256)
        /\ tasks[c].resp.status = 404

-----------------------------------------------------------------------------
\* the access is held by at most one task, and exactly inside the handler
C4_Exclusive ==
    /\ Cardinality(holders) <= 1
    /\ \A c \in TaskIds :
          /\ tasks[c].st # "Panicked"
          /\ (c \in holders) <=> InHandler(c)
          /\ Suspended(c) => c \notin holders

\* a step taken while the access is held is a step of its holder
C4_NoSuspension ==
    \A c \in holders :
        /\ \A d \in TaskIds \ {c} : tasks'[d].st = tasks[d].st
        /\ mainpc' = mainpc
        /\ configUp' = configUp
        /\ led1' = led1

\* C4: mutual exclusion of the critical section.  At most one task holds
\* the borrow / the guard; it holds it exactly while it executes the toggle
\* handler, never while suspended on network I/O or writing a response; no
\* task panics on borrow_mut; and while the access is held no other task,
\* nor main, nor a background task takes a step.
C4_MutualExclusion == [](C4_Exclusive) /\ [][C4_NoSuspension]_vars

\* one task holds the access while another has a toggle request to dispatch
C4_Witness ==
    \E c, d \in TaskIds :
        /\ c # d
        /\ holders = {c}
        /\ tasks[c].st = "Flipped"
        /\ tasks[d].st = "Dispatching"
        /\ tasks[d].req = TogglePath(Seg1)

-----------------------------------------------------------------------------
\* C5: static routes are independent of the actuator.  Whatever toggles
\* came before, the response to /, /index.css and /index.js is the same
\* fixed body with content-type text/html, text/css and
\* application/javascript.
C5_StaticRoutes ==
    \A c \in TaskIds :
        tasks[c].st = "WritingResponse" =>
            /\ tasks[c].req = RootPath =>
                  tasks[c].resp = [status |-> 200, ctype |-> "text/html",
                                   body |-> "index.html"]
            /\ tasks[c].req = CssPath =>
                  tasks[c].resp = [status |-> 200, ctype |-> "text/css",
                                   body |-> "index.css"]
            /\ tasks[c].req = JsPath =>
                  tasks[c].resp = [status |-> 200, ctype |-> "application/javascript",
                                   body |-> "index.js"]

\* / is answered after a toggle has switched the actuator off
C5_Witness ==
    /\ led2 # InitialActuator
    /\ Len(log) = 1
    /\ \E c \in TaskIds :
          /\ tasks[c].st = "WritingResponse"
          /\ tasks[c].req = RootPath

-----------------------------------------------------------------------------
\* C6: unknown route.  When a request for a path no route matches
\* (/nonexistent) is dispatched, it is answered not-found by the router, neither the toggle
\* handler nor a static handler is invoked, and the actuator is unchanged.
C6_UnknownRoute ==
    [][\A c \in TaskIds :
          (Dispatched(c) /\ tasks[c].req = NonexistentPath) =>
             /\ AnsweredByRouter(c)
             /\ tasks'[c].resp.status = 404
             /\ tasks'[c].handler = "none"
             /\ ActuatorUntouched]_vars

\* /nonexistent is being answered
C6_Witness ==
    \E c \in TaskIds :
        /\ tasks[c].st = "WritingResponse"
        /\ tasks[c].req = NonexistentPath
        /\ tasks[c].resp.status = 404

-----------------------------------------------------------------------------
\* C7: error containment.  Once the listener is accepting, the accept loop
\* never stops and no handler is terminated from outside its own
\* connection; only a startup error (mainpc = "failed") ends the service.
C7_ErrorContainment ==
    /\ mainpc # "aborted"
    /\ \A c \in TaskIds : tasks[c].st # "Cancelled"

-----------------------------------------------------------------------------
\* the timeout of a silent connection and the write of a pending response
\* are both possible
C8_TimeoutCloses ==
    \A c \in TaskIds :
        /\ (tasks[c].st = "AwaitRequestStart" /\ tasks[c].inbox = <<>> /\ MainCanRun)
              => ENABLED StartReadTimeout(c)
        /\ (tasks[c].st = "WritingResponse" /\ MainCanRun)
              => ENABLED WriteResponse(c)

\* the step that closes a connection on start_read_request touches nothing
\* else
C8_TimeoutStep ==
    \A c \in TaskIds :
        (tasks'[c].st = "Closed" /\ tasks'[c].closedBy = "start_read_request"
            /\ tasks[c].st # "Closed") =>
            /\ tasks[c].st = "AwaitRequestStart"
            /\ \A d \in TaskIds \ {c} : tasks'[d] = tasks[d]
            /\ mainpc' = mainpc
            /\ ActuatorUntouched

\* C8: timeout isolation.  A connection that has sent nothing can be closed
\* by the start_read_request timeout; the step that closes it changes no
\* other task, not the accept loop and not the actuator; and a response
\* another connection is writing can still be written.
C8_TimeoutIsolation == [](C8_TimeoutCloses) /\ [][C8_TimeoutStep]_vars

\* one connection was closed by the timeout while another one is answered
C8_Witness ==
    \E c, d \in TaskIds :
        /\ c # d
        /\ tasks[c].st = "Closed"
        /\ tasks[c].closedBy = "start_read_request"
        /\ tasks[d].st = "WritingResponse"
        /\ tasks[d].resp.status = 200

-----------------------------------------------------------------------------
\* C9: bounded pool.  Once main of the embassy program has run its spawn
\* loop, WEB_TASK_POOL_SIZE handler slots exist, and never more than
\* WEB_TASK_POOL_SIZE connections are served at once.
C9_BoundedPool ==
    (program = "embassy" /\ mainpc = "done") =>
        /\ Cardinality(Spawned) = WEB_TASK_POOL_SIZE
        /\ Cardinality(Serving) <= WEB_TASK_POOL_SIZE

-----------------------------------------------------------------------------
\* requests are handled one at a time, in arrival order
C10_InOrder ==
    \A c \in TaskIds :
        /\ tasks[c].st \in {"Dispatching", "Acquired", "Flipped", "Responding",
                            "WritingResponse"}
              => tasks[c].dispatched = tasks[c].written + 1
        /\ tasks[c].st \in {"AwaitRequestStart", "ReadingRequest"}
              => tasks[c].dispatched = tasks[c].written
        /\ tasks[c].inbox # <<>>
              => Head(tasks[c].inbox).n = tasks[c].dispatched + 1

\* the transitions of a handler that keeps its connection
C10_Edges ==
    {<<"AwaitRequestStart", "ReadingRequest">>,
     <<"ReadingRequest", "Dispatching">>,
     <<"Dispatching", "WritingResponse">>,
     <<"Dispatching", "Acquired">>,
     <<"Acquired", "Flipped">>,
     <<"Flipped", "Responding">>,
     <<"Responding", "WritingResponse">>,
     <<"WritingResponse", "AwaitRequestStart">>}

\* a handler follows the edges, and a written response keeps the connection
C10_Step ==
    \A c \in TaskIds :
        /\ (tasks[c].st \in OpenStates /\ tasks'[c].st \in OpenStates
               /\ tasks'[c].st # tasks[c].st)
              => <<tasks[c].st, tasks'[c].st>> \in C10_Edges
        /\ (tasks[c].st = "WritingResponse" /\ tasks'[c].written = tasks[c].dispatched)
              => tasks'[c].st = "AwaitRequestStart"
        /\ (tasks[c].st = "WritingResponse" /\ tasks'[c].st = "Closed")
              => tasks'[c].closedBy \in {"write", "error"}

\* C10: connection handler state machine with keep-alive.  A task moves
\* only along AwaitRequestStart -> ReadingRequest -> Dispatching ->
\* (handler) -> WritingResponse; the request it dispatches is the next one
\* in arrival order and all earlier ones have been answered; and when a
\* response has been written in full the task is back in AwaitRequestStart.
C10_KeepAliveStateMachine == [](C10_InOrder) /\ [][C10_Step]_vars

\* the second request of a connection is dispatched after the first was
\* answered, while it was already waiting when the first was dispatched
C10_Witness ==
    \E c \in TaskIds :
        /\ tasks[c].st = "Dispatching"
        /\ tasks[c].dispatched = 2
        /\ tasks[c].written = 1

-----------------------------------------------------------------------------
\* a task owns an open connection
Open(c) == c \in TaskIds /\ tasks[c].st \in OpenStates

\* the connection of a task is over
Ended(c) == c \in TaskIds /\ tasks[c].st \notin OpenStates

\* C11: every connection eventually ends.  With the three timeouts enabled,
\* a task that owns an open connection eventually no longer owns it, and in
\* the embassy program a closed slot eventually listens again.
C11_ConnectionsEnd ==
    \A c \in AllTaskIds :
        /\ Open(c) ~> Ended(c)
        /\ (c \in TaskIds /\ program = "embassy" /\ tasks[c].st = "Closed")
              ~> (c \in TaskIds /\ tasks[c].st = "Listening")

\* an embassy slot whose connection is over listens again for the next
\* connection
C11_Witness ==
    /\ program = "embassy"
    /\ accepted = 1
    /\ \E c \in TaskIds : tasks[c].st = "Listening"

-----------------------------------------------------------------------------
\* the step is the flip of the toggle handler, taken by the task that holds
\* the access
ToggleStep ==
    \E c \in TaskIds :
        /\ c \in holders
        /\ tasks[c].st = "Acquired"
        /\ tasks'[c].st = "Flipped"

\* C12: the actuator is created once at startup and mutated only by the
\* toggle operation.  Until the first flip it has its initial value, and
\* every step that changes it is the flip of a toggle handler: static
\* routes, rejected and not-found requests, accept and spawn, timeouts and
\* closes, blinky_task and net_task leave it unchanged.
C12_OnlyToggleMutates ==
    /\ [](flips = 0 => led2 = InitialActuator)
    /\ [][led2' # led2 => ToggleStep]_vars

\* in the embassy program blinky_task has switched its LED and a request has
\* been answered, and the actuator still has its initial value
C12_Witness ==
    /\ program = "embassy"
    /\ led1 # InitialLed1
    /\ flips = 0
    /\ led2 = InitialActuator
    /\ \E c \in TaskIds : tasks[c].written = 1

-----------------------------------------------------------------------------
\* main() has built the route table, the service configuration and the
\* shared control
AppBuilt == mainpc \in {"app_built", "done"}

\* every web handler that exists was spawned after the network
\* configuration came up and after the application was built
C13_SpawnedAfterConfig ==
    program = "embassy" =>
        \A c \in TaskIds : tasks[c].st # "Unspawned" => (configUp /\ AppBuilt)

\* the application is built once, before any handler exists, and stays built
C13_BuiltOnce ==
    program = "embassy" =>
        /\ (AppBuilt' /\ ~AppBuilt) => (mainpc = "config_up" /\ Spawned = {})
        /\ AppBuilt => AppBuilt'

\* C13: startup ordering in the embassy program.  No web handler exists,
\* listens or serves before the network stack has reported its
\* configuration up; the route table and the service configuration are built
\* before the first handler is spawned, and that step is never taken again.
C13_StartupOrdering == [](C13_SpawnedAfterConfig) /\ [][C13_BuiltOnce]_vars

\* main has returned and the web handler listens, with the configuration up
C13_Witness ==
    /\ program = "embassy"
    /\ mainpc = "done"
    /\ configUp
    /\ accepted = 0
    /\ \E c \in TaskIds : tasks[c].st = "Listening"

-----------------------------------------------------------------------------
\* the valid /toggle_led requests clients send, one of them with the largest
\* 8-bit id
ValidTogglePaths == {TogglePath(Seg1), TogglePath(Seg255)}

\* a dispatched request with a valid id enters the toggle handler, and the
\* handler's flip inverts the one actuator whatever the id
C14_AnyIdFlips ==
    \A c \in TaskIds :
        /\ (Dispatched(c) /\ tasks[c].req \in ValidTogglePaths) =>
              /\ tasks'[c].st = "Acquired"
              /\ tasks'[c].handler = "toggle"
        /\ (tasks[c].st = "Acquired" /\ tasks'[c].st = "Flipped") =>
              /\ led2' = ~led2
              /\ flips' = flips + 1

\* the actuator is a function of the number of toggles that succeeded
C14_CountOnly ==
    /\ (\A c \in TaskIds : ~InHandler(c)) =>
          led2 = AfterFlips(InitialActuator, Len(log))
    /\ \A c \in TaskIds :
          (tasks[c].st = "WritingResponse" /\ tasks[c].req \in ValidTogglePaths)
             => tasks[c].resp.status = 200

\* C14: the id is accepted over the whole 8-bit range and otherwise
\* ignored.  /toggle_led/1 and /toggle_led/255 both succeed and flip the
\* same actuator, whose state depends only on how many toggles succeeded;
\* toggles with different ids cancel each other.
C14_IdIgnored == [](C14_CountOnly) /\ [][C14_AnyIdFlips]_vars

\* a toggle with id 1 and a toggle with id 255 have both succeeded and the
\* actuator is back at its initial value
C14_Witness ==
    /\ Len(log) = 2
    /\ led2 = InitialActuator
    /\ \E c, d \in TaskIds :
          /\ tasks[c].st = "WritingResponse" /\ tasks[c].req = TogglePath(Seg1)
          /\ tasks[d].st = "WritingResponse" /\ tasks[d].req = TogglePath(Seg255)
          /\ tasks[c].resp.status = 200
          /\ tasks[d].resp.status = 200

-----------------------------------------------------------------------------
-----------------------------------------------------------------------------
\* the toggle handler of task c has been entered and holds the access
HasAccess(c) == c \in TaskIds /\ tasks[c].st = "Acquired"

\* task c has its toggle response and has given the access back
ToggleAnswered(c) ==
    /\ c \in TaskIds
    /\ tasks[c].st = "WritingResponse"
    /\ tasks[c].handler = "toggle"
    /\ tasks[c].resp.status = 200
    /\ c \notin holders

\* no task is left waiting for the lock or panicked on the borrow
C16_NoneBlocked ==
    \A c \in TaskIds : tasks[c].st \notin {"WaitLock", "Panicked"}

\* the dispatch of a toggle request obtains the access in the same step
C16_AccessAtDispatch ==
    \A c \in TaskIds :
        (Dispatched(c) /\ Route(tasks[c].req) = "toggle") => HasAccess(c)'

\* C16: no deadlock or starvation on the actuator.  Under fair scheduling
\* of the handler tasks, a dispatched toggle request obtains the exclusive
\* access at once, never waits for the lock and never panics on the borrow,
\* and then applies its flip and gets its response, however many connections
\* toggle at the same time.
C16_NoStarvation ==
    /\ [](C16_NoneBlocked)
    /\ [][C16_AccessAtDispatch]_vars
    /\ \A c \in AllTaskIds : HasAccess(c) ~> ToggleAnswered(c)

\* one connection has its toggle response while another one, toggling at
\* the same time, has obtained the access in its turn
C16_Witness ==
    \E c, d \in TaskIds :
        /\ c # d
        /\ tasks[c].st = "WritingResponse"
        /\ tasks[c].handler = "toggle"
        /\ tasks[d].st = "Acquired"
        /\ holders = {d}

====
